---- MODULE Spec2Model ----
(***************************************************************************)
(* State-machine model of interpret/visual/dashboard.py: the AppRunner     *)
(* (background server lifecycle) and the DispatcherApp (session registry   *)
(* and request routing).                                                   *)
(*                                                                         *)
(* Strings that the code builds or parses (paths, identifiers, base URL)   *)
(* are sequences of one-character strings, so that formatting, prefix      *)
(* tests and the routing pattern are computed character by character.      *)
(***************************************************************************)
EXTENDS Integers, Sequences, FiniteSets, TLC

\* ------------------------------------------------------------- bounds
\* Context objects the host process creates over a run.
MaxObjs == 3
\* Distinct memory addresses (values of id()) the allocator hands out.
MaxAddrs == 2
\* Caller threads of the host process that use the AppRunner.
MaxCallers == 2
\* Background thread objects that exist at the same time.
MaxThreads == 3

Objs == 1..MaxObjs
Addrs == 1..MaxAddrs
Callers == 1..MaxCallers
Threads == 1..MaxThreads

\* None for an object, a thread handle or a server reference.
None == 0

\* ------------------------------------------------------------- strings
DigitChars == <<"0", "1", "2", "3", "4", "5", "6", "7", "8", "9">>

\* str(n) for a natural number n, as a sequence of digit characters.
RECURSIVE Str(_)
Str(n) == IF n < 10 THEN <<DigitChars[n + 1]>>
          ELSE Str(n \div 10) \o <<DigitChars[(n % 10) + 1]>>

\* s.startswith(p)
StartsWith(s, p) == /\ Len(p) <= Len(s)
                    /\ SubSeq(s, 1, Len(p)) = p

Slash == <<"/">>

\* base_url=None is the empty sequence; the only configured base URL is "b".
NoBase == <<>>
BaseUrls == {NoBase, <<"b">>}

\* DispatcherApp.__init__: the three control paths.
root_path == <<"/">>
shutdown_path == <<"/", "s", "h", "u", "t", "d", "o", "w", "n">>
favicon_path == <<"/", "f", "a", "v", "i", "c", "o", "n", ".", "i", "c", "o">>

\* _build_path(path, base_url=None)
build_path(path, base) == IF base # NoBase THEN base \o Slash \o path ELSE path

\* Every identifier str(id(obj)) can take in the model, and one that no
\* object has.
Ids == {Str(a) : a \in Addrs}
UnknownId == <<"x">>

\* ------------------------------------------------------------- state
VARIABLES
    runner,     \* the AppRunner under construction and, then, its ip, port, use_relative_links
    base_url,   \* AppRunner.base_url = DispatcherApp.base_url, fixed at construction
    objSt,      \* per context object: "unborn", "alive" or "dead"
    addrOf,     \* per context object: its id() (kept after the object died)
    pool,       \* DispatcherApp.pool: identifier -> session application
    calls,      \* per identifier: invocations of _udash.generate_app so far
    registered, \* the context objects for which a register call has returned
    pc,         \* per caller: position inside the AppRunner method it runs
    loc,        \* per caller: the locals of that method
    thr,        \* AppRunner._thread (None or a thread)
    cfg,        \* DispatcherApp.config["server"] (None: key not set)
    srv,        \* per background thread: position inside AppRunner._run
    last,       \* what the step just taken let a caller or a client observe
    hist        \* what the callers have observed of the lifecycle so far

vars == <<runner, base_url, objSt, addrOf, pool, calls, registered, pc, loc, thr,
          cfg, srv, last, hist>>

\* The variables of the session registry, of the host's heap, and of the
\* server lifecycle.
regVars == <<pool, calls, registered>>
heapVars == <<objSt, addrOf>>
lifeVars == <<thr, cfg, srv>>

\* A session application: the context it was built for, the pathname prefix
\* handed to the factory, and which invocation for that identifier built it.
NoApp == [ctx |-> None, prefix |-> <<>>, n |-> 0]

NoLoc == [ctx |-> None, id |-> <<>>, jt |-> None, alive |-> FALSE]
NoResp == [path |-> <<>>, status |-> 0, body |-> "none", items |-> {},
           app |-> NoApp, fwd |-> <<>>]

\* The dictionary status() returns, before any was returned.
NoSnap == [addr |-> <<>>, base_url |-> <<>>, use_relative_links |-> FALSE,
           thread_alive |-> FALSE, http_reachable |-> FALSE]

\* An observation: the method that returned (or the request that was
\* answered), the value returned, the identifier computed and the HTTP
\* exchange made, the snapshot or the URL returned.  Quiet: the step let
\* nobody observe anything.
Quiet == [op |-> "none", val |-> "none", id |-> <<>>, resp |-> NoResp,
          snap |-> NoSnap, url |-> <<>>]

Returned(op, v) == [Quiet EXCEPT !.op = op, !.val = v]
Registered(v, i) == [Quiet EXCEPT !.op = "register", !.val = v, !.id = i]
Exchanged(op, v, r) == [Quiet EXCEPT !.op = op, !.val = v, !.resp = r]

\* DispatcherApp.obj_id / AppRunner._obj_id: str(id(obj))
obj_id(o) == Str(addrOf[o])

\* generate_app keeps a reference to a context that is not a list
\* (generate_app_mini: app.ctx_item holds it); a list is only iterated.
IsList(o) == o % 2 = 1

Retained(o) == /\ ~IsList(o)
               /\ \E i \in DOMAIN pool : pool[i].ctx = o

\* ------------------------------------------------------------- construction
\* AppRunner.__init__, lines 49-52 and 60: the address of the allocator, the
\* port of an object whose allocation has not succeeded, the number of
\* probes, the first port probed, and the range of the random ports.
unset_port == -1
max_attempts == 10
first_port == 7001
rand_low == 7002
rand_high == 7999

LocalIp == <<"1", "2", "7", ".", "0", ".", "0", ".", "1">>

\* random.randint(7002, 7999): the two ends of the range stand for it.
RandPorts == {rand_low, rand_high}
Ports == {first_port} \cup RandPorts

\* addr=None, and the explicit addresses (ip, port) a caller gives.
NoAddr == <<>>
GivenAddrs == {<<LocalIp, first_port>>, <<<<"h">>, rand_high>>}

\* The arguments of AppRunner(addr, base_url, use_relative_links), with the
\* ports that other sockets of the host hold, before __init__ has run.
NewRunner(addr, rel, in_use) ==
    [st |-> "new", addr |-> addr, use_relative_links |-> rel, ip |-> <<>>,
     port |-> unset_port, attempts |-> 0, try_port |-> None, in_use |-> in_use]

\* AppRunner.__init__, line 47: the allocator runs when no address is given.
\* An allocator that runs whatever the caller gave.
NeedsProbe_always(addr) == TRUE

NeedsProbe(addr) == addr = NoAddr

\* AppRunner.__init__, lines 40-52 and 68-70.
CtorBegin ==
    /\ runner.st = "new"
    /\ runner' =
         IF NeedsProbe(runner.addr)
         THEN [runner EXCEPT !.st = "probing", !.ip = LocalIp,
                             !.port = unset_port, !.try_port = first_port]
         ELSE [runner EXCEPT !.st = "ready", !.ip = runner.addr[1],
                             !.port = runner.addr[2]]
    /\ last' = Quiet
    /\ UNCHANGED <<base_url, objSt, addrOf, pool, calls, registered, pc, loc,
                   thr, cfg, srv, hist>>

\* AppRunner._local_port_available(port, rais=False), lines 77-92: the bind
\* of a fresh socket succeeds when no other socket holds the port; the
\* OSError of a failed bind becomes False.
\* A probe that reports every port as free.
local_port_available_any(port) == TRUE

local_port_available(port) == port \notin runner.in_use

\* AppRunner.__init__, lines 62-67: the for loop ended without a break;
\* RuntimeError is raised and no object is returned.
\* A constructor that returns when the loop has ended without a break.
LoopElse_silent == "ready"

LoopElse == "failed"

\* AppRunner.__init__, lines 53-67: one round of the for loop.
CtorProbe ==
    /\ runner.st = "probing"
    /\ IF local_port_available(runner.try_port)
       THEN runner' = [runner EXCEPT !.st = "ready", !.port = runner.try_port,
                                     !.attempts = @ + 1]
       ELSE \E port \in RandPorts :
              runner' = [runner EXCEPT
                           !.attempts = @ + 1,
                           !.try_port = port,
                           !.st = IF runner.attempts + 1 = max_attempts
                                  THEN LoopElse ELSE "probing"]
    /\ last' = Quiet
    /\ UNCHANGED <<base_url, objSt, addrOf, pool, calls, registered, pc, loc,
                   thr, cfg, srv, hist>>

\* AppRunner(base_url=...) with the other arguments at their defaults, on a
\* host where port 7001 is free.
DefaultRunner ==
    [NewRunner(NoAddr, FALSE, {}) EXCEPT !.st = "ready", !.ip = LocalIp,
        !.port = first_port, !.attempts = 1, !.try_port = first_port]

\* The runners whose construction has returned, by the first probe or with
\* an explicit address.
ReadyRunner(addr, rel) ==
    IF addr = NoAddr THEN [DefaultRunner EXCEPT !.use_relative_links = rel]
    ELSE [NewRunner(addr, rel, {}) EXCEPT !.st = "ready", !.ip = addr[1],
                                          !.port = addr[2]]

Constructed ==
    {ReadyRunner(addr, rel) : addr \in {NoAddr} \cup GivenAddrs, rel \in BOOLEAN}

\* The dispatcher and the runner's thread handle after construction,
\* lines 45 and 193-209.
Blank ==
    /\ objSt = [o \in Objs |-> "unborn"]
    /\ addrOf = [o \in Objs |-> 0]
    /\ pool = <<>>
    /\ registered = {}
    /\ pc = [c \in Callers |-> "idle"]
    /\ loc = [c \in Callers |-> NoLoc]
    /\ thr = None
    /\ cfg = None
    /\ srv = [t \in Threads |-> "off"]
    /\ last = Quiet
    /\ hist = "init"

Fresh ==
    /\ base_url \in BaseUrls
    /\ calls = [i \in Ids |-> 0]
    /\ Blank

Init == runner = DefaultRunner /\ Fresh

\* Before __init__ has run, for any arguments and any ports in use.
InitNew ==
    /\ runner \in {NewRunner(addr, rel, in_use) :
                      addr \in {NoAddr} \cup GivenAddrs, rel \in BOOLEAN,
                      in_use \in SUBSET Ports}
    /\ Fresh

\* After any construction that has returned.
InitConstructed == runner \in Constructed /\ Fresh

\* ------------------------------------------------------------- heap
\* The host process creates a context object; CPython gives it an address
\* that no live object has.
Alloc(o, a) ==
    /\ objSt[o] = "unborn"
    /\ \A p \in Objs : p < o => objSt[p] # "unborn"
    /\ \A p \in Objs : objSt[p] = "alive" => addrOf[p] # a
    /\ objSt' = [objSt EXCEPT ![o] = "alive"]
    /\ addrOf' = [addrOf EXCEPT ![o] = a]
    /\ last' = Quiet
    /\ UNCHANGED <<runner, base_url, pool, calls, registered, pc, loc, thr, cfg, srv, hist>>

\* The last reference to a context goes away: no caller is inside
\* register(ctx) and no stored application holds it.
Free(o) ==
    /\ objSt[o] = "alive"
    /\ \A c \in Callers : loc[c].ctx # o
    /\ ~Retained(o)
    /\ objSt' = [objSt EXCEPT ![o] = "dead"]
    /\ last' = Quiet
    /\ UNCHANGED <<runner, base_url, addrOf, pool, calls, registered, pc, loc, thr, cfg, srv, hist>>

\* ------------------------------------------------------------- register
\* DispatcherApp.register, line 215-216 and 234-235: compute the identifier
\* and test the pool.
\* A register that misses the membership test.
InPool_never(ctx_id) == FALSE

InPool(ctx_id) == ctx_id \in DOMAIN pool

ctx_path(ctx_id) ==
    IF base_url = NoBase THEN Slash \o ctx_id \o Slash
    ELSE Slash \o base_url \o Slash \o ctx_id \o Slash

RegisterCheck(c, o) ==
    /\ pc[c] = "idle"
    /\ objSt[o] = "alive"
    /\ LET ctx_id == obj_id(o) IN
         IF InPool(ctx_id)
         THEN /\ last' = Registered("found", ctx_id)
              /\ registered' = registered \cup {o}
              /\ UNCHANGED <<pc, loc>>
         ELSE /\ pc' = [pc EXCEPT ![c] = "reg_build"]
              /\ loc' = [loc EXCEPT ![c] = [NoLoc EXCEPT !.ctx = o, !.id = ctx_id]]
              /\ last' = Quiet
              /\ UNCHANGED registered
    /\ UNCHANGED <<runner, base_url, objSt, addrOf, pool, calls, thr, cfg, srv, hist>>

\* DispatcherApp.register, lines 217-233: the factory builds the application
\* and the pool entry is assigned.
\* A register that assigns the entry before the factory has given the
\* application its path prefix.
Store_early(ctx_id, app) ==
    [i \in DOMAIN pool \cup {ctx_id} |->
        IF i = ctx_id THEN [app EXCEPT !.prefix = <<>>] ELSE pool[i]]

Store(ctx_id, app) ==
    [i \in DOMAIN pool \cup {ctx_id} |-> IF i = ctx_id THEN app ELSE pool[i]]

RegisterBuild(c) ==
    /\ pc[c] = "reg_build"
    /\ LET ctx_id == loc[c].id
           app == [ctx |-> loc[c].ctx, prefix |-> ctx_path(ctx_id),
                   n |-> calls[ctx_id] + 1]
       IN /\ calls' = [calls EXCEPT ![ctx_id] = @ + 1]
          /\ pool' = Store(ctx_id, app)
          /\ last' = Registered("built", ctx_id)
          /\ registered' = registered \cup {loc[c].ctx}
    /\ pc' = [pc EXCEPT ![c] = "idle"]
    /\ loc' = [loc EXCEPT ![c] = NoLoc]
    /\ UNCHANGED <<runner, base_url, objSt, addrOf, thr, cfg, srv, hist>>

\* ------------------------------------------------------------- routing
\* re.search(self.app_pattern, path_info) for a non-empty path: the index at
\* which group(1) starts.  The pattern is /?(.+?)(/|$) without a base URL and
\* /?(?:{base_url}/)?(.+?)(/|$) with one; it is tried at the first character,
\* where the alternatives are taken in the order the regex engine backtracks:
\* slash and base prefix, slash only, base prefix only, neither.  The lazy
\* group needs one character, so an alternative is taken when one is left.
GroupStart(p, base) ==
    IF /\ p[1] = "/"
       /\ base # NoBase
       /\ StartsWith(Tail(p), base \o Slash)
       /\ Len(p) >= Len(base) + 3
    THEN Len(base) + 3
    ELSE IF p[1] = "/" /\ Len(p) >= 2
    THEN 2
    ELSE IF /\ base # NoBase
            /\ StartsWith(p, base \o Slash)
            /\ Len(p) >= Len(base) + 2
    THEN Len(base) + 2
    ELSE 1

\* (.+?)(/|$): the group ends at the first index, from its start on, that is
\* the last character or is followed by a slash.
Stops(p, e) == e = Len(p) \/ p[e + 1] = "/"

GroupEnd(p, k) ==
    CHOOSE e \in k..Len(p) : Stops(p, e) /\ \A f \in k..(e - 1) : ~Stops(p, f)

\* match.group(1); the match is None exactly for the empty path.
HasMatch(p) == Len(p) > 0

\* A pattern without the leading /?: the group keeps the slash.
Group1_keepslash(p, base) == SubSeq(p, 1, GroupEnd(p, 1))

Group1(p, base) ==
    LET k == GroupStart(p, base) IN SubSeq(p, k, GroupEnd(p, k))

\* DispatcherApp.__call__, line 265:
\* match is None or self.pool.get(match.group(1), None) is None
Unrouted(p) == \/ ~HasMatch(p)
               \/ Group1(p, base_url) \notin DOMAIN pool

\* A lookup that falls back to a default application (the dispatcher holds
\* one, self.default_app) instead of answering 400.
Lookup_default(p) ==
    IF Unrouted(p) THEN [ctx |-> None, prefix |-> Slash, n |-> 1]
    ELSE pool[Group1(p, base_url)]

\* DispatcherApp.__call__, lines 265 and 273: the application the request
\* is delegated to, NoApp when it is answered with 400.
Lookup(p) == IF Unrouted(p) THEN NoApp ELSE pool[Group1(p, base_url)]

\* DispatcherApp.__call__, lines 274-280: the path handed to the session
\* application.
Forwarded(p) ==
    IF base_url # NoBase /\ ~StartsWith(p, Slash \o base_url)
    THEN Slash \o base_url \o p
    ELSE p

\* DispatcherApp._root_content, lines 395-410: the list items of the page.
NoLinksItem == [href |-> <<>>, text |-> <<>>]

root_content ==
    IF DOMAIN pool = {} THEN {NoLinksItem}
    ELSE {[href |-> ctx_path(key), text |-> key] : key \in DOMAIN pool}

\* The background threads whose server is accepting connections.
Serving == {t \in Threads : srv[t] = "serving"}

\* A dispatcher without the three tests of the control paths: every path
\* goes through the pattern and the pool.
Response_routefirst(s, p) ==
    IF Lookup(p) = NoApp
    THEN [path |-> p, status |-> 400, body |-> "unsupported", items |-> {},
          app |-> NoApp, fwd |-> <<>>]
    ELSE [path |-> p, status |-> 0, body |-> "app", items |-> {},
          app |-> Lookup(p), fwd |-> Forwarded(p)]

\* DispatcherApp.__call__ run by the server of thread s for PATH_INFO = p:
\* the response.
Response(s, p) ==
    IF p = root_path
    THEN [path |-> p, status |-> 200, body |-> "page", items |-> root_content,
          app |-> NoApp, fwd |-> <<>>]
    ELSE IF p = shutdown_path
    THEN IF cfg = None
         THEN [path |-> p, status |-> 500, body |-> "error", items |-> {},
               app |-> NoApp, fwd |-> <<>>]
         ELSE [path |-> p, status |-> 200, body |-> "Shutdown", items |-> {},
               app |-> NoApp, fwd |-> <<>>]
    ELSE IF p = favicon_path
    THEN [path |-> p, status |-> 200, body |-> "icon", items |-> {},
          app |-> NoApp, fwd |-> <<>>]
    ELSE IF Lookup(p) = NoApp
    THEN [path |-> p, status |-> 400, body |-> "unsupported", items |-> {},
          app |-> NoApp, fwd |-> <<>>]
    ELSE [path |-> p, status |-> 0, body |-> "app", items |-> {},
          app |-> Lookup(p), fwd |-> Forwarded(p)]

\* requests raises ConnectionError: nothing listens on the address.
Refused(p) ==
    [path |-> p, status |-> 0, body |-> "refused", items |-> {},
     app |-> NoApp, fwd |-> <<>>]

\* DispatcherApp.__call__, lines 250-253: server = self.config["server"];
\* server.stop().  Stopping closes the listening socket of that server; a
\* server that is not accepting is left as it is.
ServerStop(p) ==
    IF p = shutdown_path /\ cfg # None /\ srv[cfg] = "serving"
    THEN [srv EXCEPT ![cfg] = "stopped"]
    ELSE srv

\* One HTTP exchange with the runner's address: the response and the
\* background threads afterwards.
Exchange(p) ==
    IF Serving = {}
    THEN [resp |-> Refused(p), srv |-> srv]
    ELSE [resp |-> Response(CHOOSE t \in Serving : TRUE, p), srv |-> ServerStop(p)]

\* What the callers know after an exchange: a shutdown request that was
\* answered ends the wait for the first successful ping.
HistAfter(r) ==
    IF r.path = shutdown_path /\ r.body # "refused" /\ hist \in {"started", "restarted"}
    THEN "other"
    ELSE hist

\* Paths an outside client requests.
SessionPath(i) == Slash \o i \o Slash
BasedPath(i) == Slash \o <<"b">> \o Slash \o i \o Slash

ReqPaths ==
    {root_path, shutdown_path, favicon_path}
    \cup {SessionPath(i) : i \in Ids \cup {UnknownId}}
    \cup {BasedPath(i) : i \in Ids}

\* A request from a client other than the AppRunner.
ExtRequest(p) ==
    /\ LET x == Exchange(p) IN
         /\ last' = Exchanged("request", "none", x.resp)
         /\ srv' = x.srv
         /\ hist' = HistAfter(x.resp)
    /\ UNCHANGED <<runner, base_url, objSt, addrOf, pool, calls, registered, pc, loc, thr, cfg>>

\* DispatcherApp.__call__, lines 284-292: an exception raised while the
\* response was produced.  prev is the status of a start_response call made
\* before the exception (0: none was made).  The handler calls
\* start_response("500 ...") under contextlib.suppress; the start_response
\* of gevent's WSGI handler, the server _run uses, takes a second call as
\* long as no header was sent and replaces the status.
\* A start_response that refuses a second call (the refusal is suppressed).
start_response_strict(prev, status) == IF prev # 0 THEN prev ELSE status

start_response(prev, status) == status

Caught(p, prev) ==
    [path |-> p, status |-> start_response(prev, 500), body |-> "error",
     items |-> {}, app |-> NoApp, fwd |-> <<>>]

\* Where a route can raise: "late" after its start_response call (lines 247
\* and 261, and inside a session application), "early" before one (lines
\* 252-253, and inside a session application).  The 400 answer raises
\* nowhere.
Raises(p) ==
    IF p = root_path \/ p = favicon_path THEN {"late"}
    ELSE IF p = shutdown_path THEN {"early"}
    ELSE IF Lookup(p) = NoApp THEN {}
    ELSE {"early", "late"}

\* A request whose handling raises: the server that answers sends what the
\* except clause returns.  server.stop() may have raised before or after it
\* stopped the server.
FaultyRequest(p, f) ==
    /\ Serving # {}
    /\ f \in Raises(p)
    /\ last' = Exchanged("request", "none", Caught(p, IF f = "late" THEN 200 ELSE 0))
    /\ srv' \in {srv, ServerStop(p)}
    /\ hist' = HistAfter(Caught(p, 0))
    /\ UNCHANGED <<runner, base_url, objSt, addrOf, pool, calls, registered, pc, loc, thr, cfg>>

\* DispatcherApp._root_content, line 408, run by the server's thread while
\* caller c is at line 233: `for key in self.pool` has begun when
\* self.pool[ctx_id] = app.server inserts a new key, and the next step of the
\* dict iterator raises RuntimeError (dictionary changed size during
\* iteration).  start_response("200 OK") was called at line 246; the except
\* clause of lines 284-292 answers.  An assignment to a key that is present
\* leaves the size as it is and raises nothing.
RootDuringStore(c) ==
    /\ Serving # {}
    /\ pc[c] = "reg_build"
    /\ DOMAIN pool # {}
    /\ loc[c].id \notin DOMAIN pool
    /\ LET ctx_id == loc[c].id
           app == [ctx |-> loc[c].ctx, prefix |-> ctx_path(ctx_id),
                   n |-> calls[ctx_id] + 1]
       IN /\ calls' = [calls EXCEPT ![ctx_id] = @ + 1]
          /\ pool' = Store(ctx_id, app)
          /\ registered' = registered \cup {loc[c].ctx}
    /\ last' = Exchanged("request", "none", Caught(root_path, 200))
    /\ pc' = [pc EXCEPT ![c] = "idle"]
    /\ loc' = [loc EXCEPT ![c] = NoLoc]
    /\ UNCHANGED <<runner, base_url, objSt, addrOf, thr, cfg, srv, hist>>

\* ------------------------------------------------------------- display_link
HttpScheme == <<"h", "t", "t", "p", ":", "/", "/">>

\* AppRunner.display_link, line 172: "/" with relative links, else
\* http://{ip}:{port}/.
start_url ==
    IF runner.use_relative_links THEN Slash
    ELSE HttpScheme \o runner.ip \o <<":">> \o Str(runner.port) \o Slash

\* A link whose path joins the base URL and the identifier without a slash.
display_link_joined(o) == start_url \o base_url \o obj_id(o) \o Slash

\* AppRunner.display_link, lines 170-174.
display_link(o) ==
    LET obj_path == obj_id(o) \o Slash
        path == IF base_url = NoBase THEN obj_path
                ELSE base_url \o Slash \o obj_path
    IN start_url \o path

\* AppRunner.display_link, lines 169-177: the URL is computed and returned.
DisplayLink(c, o) ==
    /\ pc[c] = "idle"
    /\ objSt[o] = "alive"
    /\ last' = [Returned("display_link", "url") EXCEPT
                  !.id = obj_id(o), !.url = display_link(o)]
    /\ UNCHANGED <<runner, base_url, objSt, addrOf, pool, calls, registered, pc, loc, thr, cfg, srv, hist>>

\* ------------------------------------------------------------- _run
\* A thread object that nothing refers to any more may be collected; its
\* slot stands for a new thread afterwards.
Unused(t) ==
    /\ srv[t] = "off"
    /\ thr # t
    /\ cfg # t
    /\ \A c \in Callers : loc[c].jt # t

\* threading.Thread.is_alive()
is_alive(t) == srv[t] \in {"created", "configured", "serving", "stopped"}

\* AppRunner._run, lines 125-126: the server object is created and stored
\* in the dispatcher's config.
RunCreate(t) ==
    /\ srv[t] = "created"
    /\ srv' = [srv EXCEPT ![t] = "configured"]
    /\ cfg' = t
    /\ last' = Quiet
    /\ UNCHANGED <<runner, base_url, objSt, addrOf, pool, calls, registered, pc, loc, thr, hist>>

\* AppRunner._run, line 127 (and 128-129): serve_forever binds the address
\* and accepts; when the address is taken the bind raises, the error is
\* logged and the thread ends.
\* A server whose bind always fails.
BindOutcome_fails(t) == "off"

BindOutcome(t) == IF Serving = {} THEN "serving" ELSE "off"

RunBind(t) ==
    /\ srv[t] = "configured"
    /\ srv' = [srv EXCEPT ![t] = BindOutcome(t)]
    /\ last' = Quiet
    /\ UNCHANGED <<runner, base_url, objSt, addrOf, pool, calls, registered, pc, loc, thr, cfg, hist>>

\* AppRunner._run, line 127: serve_forever returns after the server was
\* stopped, and the thread ends.
RunExit(t) ==
    /\ srv[t] = "stopped"
    /\ srv' = [srv EXCEPT ![t] = "off"]
    /\ last' = Quiet
    /\ UNCHANGED <<runner, base_url, objSt, addrOf, pool, calls, registered, pc, loc, thr, cfg, hist>>

\* ------------------------------------------------------------- start
HistAfterStart ==
    IF hist = "stopped" THEN "restarted"
    ELSE IF thr = None THEN "started"
    ELSE "other"

\* threading.Thread.start(), line 138, returns once the thread has begun to
\* run _run; nothing was created or bound by then.
\* A start that returns only after the server has bound and accepts.
ThreadStarted_bound == "serving"

ThreadStarted == "created"

\* AppRunner.start, lines 137-138: a new daemon thread is stored in _thread
\* and started.
Start(c, t) ==
    /\ pc[c] = "idle"
    /\ Unused(t)
    /\ \A u \in Threads : u < t => ~Unused(u)
    /\ thr' = t
    /\ srv' = [srv EXCEPT ![t] = ThreadStarted]
    /\ last' = Returned("start", "none")
    /\ hist' = HistAfterStart
    /\ UNCHANGED <<runner, base_url, objSt, addrOf, pool, calls, registered, pc, loc, cfg>>

\* ------------------------------------------------------------- ping
\* AppRunner.ping, lines 143-151: GET / on the runner's address; a
\* RequestException becomes False.
\* A ping that takes the request for answered whatever happened.
PingValue_true(r) == "true"

PingValue(r) == IF r.body = "refused" THEN "false" ELSE "true"

Ping(c) ==
    /\ pc[c] = "idle"
    /\ LET x == Exchange(Slash \o build_path(<<>>, NoBase))
           v == PingValue(x.resp)
       IN /\ last' = Exchanged("ping", v, x.resp)
          /\ srv' = x.srv
          /\ hist' = IF v = "true" /\ hist \in {"started", "restarted"}
                     THEN "up" ELSE hist
    /\ UNCHANGED <<runner, base_url, objSt, addrOf, pool, calls, registered, pc, loc, thr, cfg>>

\* ------------------------------------------------------------- stop
StopReturn(c, v) ==
    /\ pc' = [pc EXCEPT ![c] = "idle"]
    /\ loc' = [loc EXCEPT ![c] = NoLoc]

\* A stop without the early return.
NoHandle_never == FALSE

\* AppRunner.stop, lines 96-97: without a thread handle stop returns True.
NoHandle == thr = None

StopBegin(c) ==
    /\ pc[c] = "idle"
    /\ IF NoHandle
       THEN /\ StopReturn(c, "true")
            /\ last' = Returned("stop", "true")
            /\ hist' = "stopped"
       ELSE /\ pc' = [pc EXCEPT ![c] = "stop_post"]
            /\ last' = Quiet
            /\ UNCHANGED <<loc, hist>>
    /\ UNCHANGED <<runner, base_url, objSt, addrOf, pool, calls, registered, thr, cfg, srv>>

\* AppRunner.stop, lines 100-107: POST /shutdown on the runner's address; a
\* RequestException makes stop return False.
StopPost(c) ==
    /\ pc[c] = "stop_post"
    /\ LET x == Exchange(Slash \o build_path(Tail(shutdown_path), NoBase)) IN
         /\ srv' = x.srv
         /\ hist' = HistAfter(x.resp)
         /\ IF x.resp.body = "refused"
            THEN /\ StopReturn(c, "false")
                 /\ last' = Exchanged("stop", "false", x.resp)
            ELSE /\ pc' = [pc EXCEPT ![c] = "stop_chk"]
                 /\ last' = Exchanged("post", "none", x.resp)
                 /\ UNCHANGED loc
    /\ UNCHANGED <<runner, base_url, objSt, addrOf, pool, calls, registered, thr, cfg>>

\* AppRunner.stop, line 103, when requests of several callers are in flight:
\* requests.post first connects.  A server that accepts takes the
\* connection; without one the connection is refused and stop returns
\* False (lines 105-107).
StopSend(c) ==
    /\ pc[c] = "stop_post"
    /\ IF Serving = {}
       THEN /\ StopReturn(c, "false")
            /\ last' = Exchanged("stop", "false",
                                 Refused(Slash \o build_path(Tail(shutdown_path), NoBase)))
       ELSE /\ pc' = [pc EXCEPT ![c] = "stop_sent"]
            /\ loc' = [loc EXCEPT ![c].jt = CHOOSE t \in Serving : TRUE]
            /\ last' = Quiet
    /\ UNCHANGED <<runner, base_url, objSt, addrOf, pool, calls, registered, thr, cfg, srv, hist>>

\* AppRunner.stop, lines 103-107: the answer to the POST.  The server's
\* thread runs DispatcherApp.__call__ for a connection it took, also after
\* another request has stopped the server; once that thread has ended the
\* connection yields no answer and requests raises.
StopRecv(c) ==
    /\ pc[c] = "stop_sent"
    /\ LET s == loc[c].jt
           p == Slash \o build_path(Tail(shutdown_path), NoBase)
       IN IF srv[s] \in {"serving", "stopped"}
          THEN /\ srv' = ServerStop(p)
               /\ hist' = HistAfter(Response(s, p))
               /\ pc' = [pc EXCEPT ![c] = "stop_chk"]
               /\ loc' = [loc EXCEPT ![c].jt = None]
               /\ last' = Exchanged("post", "none", Response(s, p))
          ELSE /\ StopReturn(c, "false")
               /\ last' = Exchanged("stop", "false", Refused(p))
               /\ UNCHANGED <<srv, hist>>
    /\ UNCHANGED <<runner, base_url, objSt, addrOf, pool, calls, registered, thr, cfg>>

\* AppRunner.stop, line 109 (and 117): the handle is tested again.
StopChk(c) ==
    /\ pc[c] = "stop_chk"
    /\ IF thr = None
       THEN /\ StopReturn(c, "true")
            /\ last' = Returned("stop", "true")
            /\ hist' = "stopped"
       ELSE /\ pc' = [pc EXCEPT ![c] = "stop_join"]
            /\ last' = Quiet
            /\ UNCHANGED <<loc, hist>>
    /\ UNCHANGED <<runner, base_url, objSt, addrOf, pool, calls, registered, thr, cfg, srv>>

\* AppRunner.stop, line 110: self._thread is read for the join; on None the
\* attribute access raises AttributeError.
StopJoin(c) ==
    /\ pc[c] = "stop_join"
    /\ IF thr = None
       THEN /\ StopReturn(c, "AttributeError")
            /\ last' = Returned("stop", "AttributeError")
       ELSE /\ pc' = [pc EXCEPT ![c] = "stop_wait"]
            /\ loc' = [loc EXCEPT ![c].jt = thr]
            /\ last' = Quiet
    /\ UNCHANGED <<runner, base_url, objSt, addrOf, pool, calls, registered, thr, cfg, srv, hist>>

\* AppRunner.stop, line 110: join(timeout=5.0) returns when the thread has
\* ended, or when the timeout has elapsed and the thread still runs.
StopWait(c, timeout) ==
    /\ pc[c] = "stop_wait"
    /\ timeout = is_alive(loc[c].jt)
    /\ pc' = [pc EXCEPT ![c] = "stop_alive"]
    /\ loc' = [loc EXCEPT ![c].jt = None]
    /\ last' = Quiet
    /\ UNCHANGED <<runner, base_url, objSt, addrOf, pool, calls, registered, thr, cfg, srv, hist>>

\* AppRunner.stop, line 111: self._thread.is_alive() after the join.
\* A stop that takes the thread for ended once the join has returned.
StillAlive_never(h) == FALSE

StillAlive(h) == is_alive(h)

\* AppRunner.stop, lines 111-113: self._thread.is_alive(); the handle stays
\* when stop returns False.
StopAlive(c) ==
    /\ pc[c] = "stop_alive"
    /\ IF thr = None
       THEN /\ StopReturn(c, "AttributeError")
            /\ last' = Returned("stop", "AttributeError")
            /\ UNCHANGED hist
       ELSE IF StillAlive(thr)
       THEN /\ StopReturn(c, "false")
            /\ last' = Returned("stop", "false")
            /\ hist' = "timed_out"
       ELSE /\ pc' = [pc EXCEPT ![c] = "stop_clear"]
            /\ last' = Quiet
            /\ UNCHANGED <<loc, hist>>
    /\ UNCHANGED <<runner, base_url, objSt, addrOf, pool, calls, registered, thr, cfg, srv>>

\* AppRunner.stop, lines 115-117: the handle is cleared, stop returns True.
StopClear(c) ==
    /\ pc[c] = "stop_clear"
    /\ thr' = None
    /\ StopReturn(c, "true")
    /\ last' = Returned("stop", "true")
    /\ hist' = "stopped"
    /\ UNCHANGED <<runner, base_url, objSt, addrOf, pool, calls, registered, cfg, srv>>

\* ------------------------------------------------------------- status
\* AppRunner.status, line 158: self._thread.is_alive().
\* A status that reports every thread it has a handle of as alive.
thread_alive_handle(h) == TRUE

thread_alive(h) == is_alive(h)

\* AppRunner.status, line 158: the condition of the conditional expression,
\* the first read of self._thread.
StatusBegin(c) ==
    /\ pc[c] = "idle"
    /\ pc' = [pc EXCEPT ![c] = IF thr = None THEN "status_ping" ELSE "status_alive"]
    /\ loc' = [loc EXCEPT ![c] = NoLoc]
    /\ last' = Quiet
    /\ UNCHANGED <<runner, base_url, objSt, addrOf, pool, calls, registered, thr, cfg, srv, hist>>

\* AppRunner.status, line 158: self._thread is read again for is_alive(); on
\* None the attribute access raises AttributeError.
StatusAlive(c) ==
    /\ pc[c] = "status_alive"
    /\ IF thr = None
       THEN /\ StopReturn(c, "AttributeError")
            /\ last' = Returned("status", "AttributeError")
       ELSE /\ pc' = [pc EXCEPT ![c] = "status_ping"]
            /\ loc' = [loc EXCEPT ![c].alive = thread_alive(thr)]
            /\ last' = Quiet
    /\ UNCHANGED <<runner, base_url, objSt, addrOf, pool, calls, registered, thr, cfg, srv, hist>>

\* AppRunner.status, lines 155-157 and 160-163: the ping, and the dictionary
\* that is returned.
Snapshot(alive, reachable) ==
    [addr |-> <<runner.ip, runner.port>>,
     base_url |-> base_url,
     use_relative_links |-> runner.use_relative_links,
     thread_alive |-> alive,
     http_reachable |-> reachable]

StatusPing(c) ==
    /\ pc[c] = "status_ping"
    /\ LET x == Exchange(Slash \o build_path(<<>>, NoBase))
           v == PingValue(x.resp)
       IN /\ last' = [Exchanged("status", "snapshot", x.resp) EXCEPT
                        !.snap = Snapshot(loc[c].alive, v = "true")]
          /\ srv' = x.srv
          /\ hist' = IF v = "true" /\ hist \in {"started", "restarted"}
                     THEN "up" ELSE hist
    /\ StopReturn(c, "snapshot")
    /\ UNCHANGED <<runner, base_url, objSt, addrOf, pool, calls, registered, thr, cfg>>

\* ------------------------------------------------------------- specification
\* The steps of caller c, of the host's heap, of background thread t, and an
\* outside client's request.
RegisterStep(c) ==
    \/ \E o \in Objs : RegisterCheck(c, o)
    \/ RegisterBuild(c)

StopStep(c) ==
    \/ StopBegin(c)
    \/ StopPost(c)
    \/ StopChk(c)
    \/ StopJoin(c)
    \/ \E timeout \in BOOLEAN : StopWait(c, timeout)
    \/ StopAlive(c)
    \/ StopClear(c)

StatusStep(c) ==
    \/ StatusBegin(c)
    \/ StatusAlive(c)
    \/ StatusPing(c)

RunStep(t) ==
    \/ RunCreate(t)
    \/ RunBind(t)
    \/ RunExit(t)

Next ==
    \/ \E o \in Objs, a \in Addrs : Alloc(o, a)
    \/ \E o \in Objs : Free(o)
    \/ \E c \in Callers : RegisterStep(c)
    \/ \E c \in Callers, t \in Threads : Start(c, t)
    \/ \E c \in Callers : Ping(c)
    \/ \E c \in Callers : StopStep(c)
    \/ \E c \in Callers : StatusStep(c)
    \/ \E c \in Callers, o \in Objs : DisplayLink(c, o)
    \/ \E t \in Threads : RunStep(t)
    \/ \E p \in ReqPaths : ExtRequest(p)
    \/ \E p \in ReqPaths, f \in {"early", "late"} : FaultyRequest(p, f)

Spec == Init /\ [][Next]_vars

\* The registry and the routing, with callers that register concurrently
\* and a server that is started only while no background thread runs and
\* is stopped only by a client's shutdown request.
RegistryNext ==
    \/ \E o \in Objs, a \in Addrs : Alloc(o, a)
    \/ \E o \in Objs : Free(o)
    \/ \E c \in Callers : RegisterStep(c)
    \/ \E c \in Callers, t \in Threads : Start(c, t) /\ \A u \in Threads : ~is_alive(u)
    \/ \E t \in Threads : RunStep(t)
    \/ \E p \in ReqPaths : ExtRequest(p)

RegistrySpec == Init /\ [][RegistryNext]_vars

\* The same with one caller: a sequential history of calls.
RegistrySeqNext ==
    \/ \E o \in Objs, a \in Addrs : Alloc(o, a)
    \/ \E o \in Objs : Free(o)
    \/ RegisterStep(1)
    \/ \E t \in Threads : Start(1, t) /\ \A u \in Threads : ~is_alive(u)
    \/ \E t \in Threads : RunStep(t)
    \/ \E p \in ReqPaths : ExtRequest(p)

RegistrySeqSpec == Init /\ [][RegistrySeqNext]_vars

\* The lifecycle: one caller that starts, stops and pings in any order and
\* registers one context, and clients that request the shutdown path and
\* that context's path.
LifecycleNext ==
    \/ Alloc(1, 1)
    \/ RegisterStep(1)
    \/ \E t \in Threads : Start(1, t)
    \/ Ping(1)
    \/ StopStep(1)
    \/ \E t \in Threads : RunStep(t)
    \/ \E p \in {shutdown_path, SessionPath(Str(1))} : ExtRequest(p)

LifecycleSpec == Init /\ [][LifecycleNext]_vars

\* The lifecycle with a caller that, once start() has returned on a runner
\* without a thread handle, only pings until a ping succeeds; the background
\* threads and the pinging caller are scheduled fairly.
Waiting == hist \in {"started", "restarted"}

PingingNext ==
    \/ ~Waiting /\ Alloc(1, 1)
    \/ ~Waiting /\ RegisterStep(1)
    \/ ~Waiting /\ \E t \in Threads : Start(1, t)
    \/ ~Waiting /\ StopStep(1)
    \/ ~Waiting /\ \E p \in {shutdown_path, SessionPath(Str(1))} : ExtRequest(p)
    \/ Ping(1)
    \/ \E t \in Threads : RunStep(t)

PingingSpec ==
    /\ Init
    /\ [][PingingNext]_vars
    /\ WF_vars(\E t \in Threads : RunStep(t))
    /\ WF_vars(Ping(1))

\* ------------------------------------------------------------- claims
\* The factory has been invoked exactly once for every identifier in the
\* registry, and never for another.
C1_OncePerIdentifier ==
    \A i \in Ids : calls[i] = IF i \in DOMAIN pool THEN 1 ELSE 0

\* A register call for a context whose entry is present returns the
\* identifier of the entry at once, with the registry and the factory's
\* invocation counts as they were.
C1_SecondRegisterIsNoop ==
    \A c \in Callers, o \in Objs :
        (RegisterCheck(c, o) /\ obj_id(o) \in DOMAIN pool)
            => /\ pool' = pool
               /\ calls' = calls
               /\ pc'[c] = "idle"
               /\ last' = Registered("found", obj_id(o))

\* C1: in a sequential history, registering a context whose entry is
\* present invokes no factory, leaves the registry as it is and yields the
\* identifier of the entry; the factory has been invoked exactly once for
\* every identifier in the registry.
C1_RegisterIdempotent ==
    /\ []C1_OncePerIdentifier
    /\ [][C1_SecondRegisterIsNoop]_vars

\* A context registered a second time: its entry was built for it, by the
\* one invocation of the factory.
C1_Witness ==
    /\ last.op = "register"
    /\ last.val = "found"
    /\ \E o \in registered :
          /\ objSt[o] = "alive"
          /\ obj_id(o) = last.id
          /\ pool[last.id].ctx = o
          /\ calls[last.id] = 1

\* The application a request for PATH_INFO = p is delegated to.
RoutedTo(p) == Lookup(p)

Built == {pool[i].ctx : i \in DOMAIN pool}

C3_AtomicCheckThenInsert ==
    /\ \A i \in Ids : calls[i] <= 1
    /\ \A i \in DOMAIN pool : pool[i].n = 1

\* The candidate identifier of a path as the routing rule words it: the
\* configured base prefix is stripped when present, and the first segment
\* of what remains is taken.
Unprefixed(p) ==
    IF base_url # NoBase /\ StartsWith(p, Slash \o base_url \o Slash)
    THEN SubSeq(p, Len(base_url) + 2, Len(p))
    ELSE p

FirstSegment(q) ==
    LET rest == Tail(q)
        ends == {e \in 1..Len(rest) : rest[e] = "/"}
    IN IF ends = {} THEN rest
       ELSE SubSeq(rest, 1, (CHOOSE e \in ends : \A f \in ends : e <= f) - 1)

Candidate(p) == FirstSegment(Unprefixed(p))

ControlPaths == {root_path, shutdown_path, favicon_path}

\* One request for an unknown identifier: status 400, no application, the
\* registry unchanged.
C4_UnknownStep ==
    \A p \in ReqPaths \ ControlPaths :
        (ExtRequest(p) /\ Serving # {} /\ Candidate(p) \notin DOMAIN pool)
            => /\ last'.resp.status = 400
               /\ last'.resp.body = "unsupported"
               /\ last'.resp.app = NoApp
               /\ last'.resp.path = p
               /\ UNCHANGED regVars

\* C4: a request that a server answers, for a path that is no control path
\* and whose candidate identifier is not in the registry, gets status 400,
\* is delegated to no application and leaves the registry as it was.
C4_UnknownIdentifierIs400 == [][C4_UnknownStep]_vars

\* A 400 for an identifier that is not registered, while another is.
C4_Witness ==
    /\ last.op = "request"
    /\ last.resp.status = 400
    /\ last.resp.path \notin ControlPaths
    /\ Candidate(last.resp.path) \notin DOMAIN pool
    /\ DOMAIN pool # {}

\* C5: a request to /shutdown that a server answers is answered with 200
\* and the body "Shutdown", and afterwards no server accepts connections on
\* the runner's address (the thread that served it is about to end).
C5_ShutdownStopsServer ==
    (last.resp.path = shutdown_path /\ last.resp.body # "refused")
        => /\ last.resp.status = 200
           /\ last.resp.body = "Shutdown"
           /\ Serving = {}

\* C6: while the last lifecycle call that returned is a stop() that returned
\* True, a ping returns False.
C6_PingFalseAfterStop ==
    (hist = "stopped" /\ last.op = "ping") => last.val = "false"

Running == /\ Serving # {}
           /\ thr \in Serving
           /\ cfg \in Serving

\* One start() on a running runner keeps it running.
C8_StartStep ==
    \A c \in Callers, t \in Threads : (Start(c, t) /\ Running) => Running'

\* C8: start() on a running runner leaves the thread handle and the server
\* reference with the server that is serving.
C8_StartKeepsRunning == [][C8_StartStep]_vars

\* The bind of the thread that the start() after a stop() created succeeds.
C9_RestartStep ==
    \A t \in Threads :
        (RunBind(t) /\ hist = "restarted" /\ thr = t) => srv'[t] = "serving"

\* C9: the thread of a start() that follows a stop() that returned True
\* binds the address.
C9_RestartBinds == [][C9_RestartStep]_vars

\* One stop() on a runner without a thread handle.
C10_StopStep ==
    \A c \in Callers :
        (StopBegin(c) /\ thr = None)
            => /\ last' = Returned("stop", "true")
               /\ pc'[c] = "idle"
               /\ UNCHANGED <<lifeVars, regVars, heapVars, base_url, runner>>

\* C10: stop() on a runner without a thread handle returns True in one
\* step that makes no HTTP exchange and changes neither the runner, nor the
\* background threads, nor the registry.
C10_StopWithoutHandle == [][C10_StopStep]_vars

\* stop() has returned True on a runner that was never started.
C10_Witness ==
    /\ last = Returned("stop", "true")
    /\ hist = "stopped"
    /\ thr = None
    /\ cfg = None

\* ------------------------------------------------------------- construction, checked
\* The constructor alone: any arguments, any ports held by other sockets.
ConstructNext ==
    \/ CtorBegin
    \/ CtorProbe

ConstructSpec == InitNew /\ [][ConstructNext]_vars

\* C18: the allocator makes at most 10 probes; a construction whose probes
\* have all failed has raised (no object is returned), and an object that is
\* returned has its port set.
C18_AllocatorBoundedAndFatal ==
    /\ runner.attempts <= max_attempts
    /\ runner.st = "ready" => runner.port # unset_port
    /\ runner.st = "failed" => /\ runner.addr = NoAddr
                               /\ runner.attempts = max_attempts
                               /\ runner.port = unset_port
    /\ (runner.attempts = max_attempts /\ runner.port = unset_port)
          => runner.st = "failed"

\* Ten probes were made, every one failed, and the constructor has raised.
C18_Witness ==
    /\ runner.st = "failed"
    /\ runner.attempts = max_attempts
    /\ runner.in_use = Ports

\* C19: with an explicit address the constructor makes no probe and the
\* runner has exactly the ip and the port given, whether or not another
\* socket holds the port.
C19_ExplicitAddressTrusted ==
    (runner.addr # NoAddr /\ runner.st # "new")
        => /\ runner.st = "ready"
           /\ runner.attempts = 0
           /\ runner.ip = runner.addr[1]
           /\ runner.port = runner.addr[2]

\* A runner constructed with an explicit address whose port is in use.
C19_Witness ==
    /\ runner.addr # NoAddr
    /\ runner.st = "ready"
    /\ runner.addr[2] \in runner.in_use
    /\ runner.port = runner.addr[2]

\* C24: with no address given, a constructed runner has the ip 127.0.0.1
\* and a port whose probe succeeded: 7001 whenever the probe of 7001
\* succeeds, otherwise a port of 7002..7999 that was drawn after a failed
\* probe and probed in its turn; the port is never the -1 of line 50.
C24_AllocatedPortProbed ==
    (runner.addr = NoAddr /\ runner.st = "ready")
        => /\ runner.ip = LocalIp
           /\ runner.port # unset_port
           /\ runner.port = runner.try_port
           /\ runner.port \notin runner.in_use
           /\ first_port \notin runner.in_use
                => (runner.port = first_port /\ runner.attempts = 1)
           /\ first_port \in runner.in_use
                => /\ runner.port \in rand_low..rand_high
                   /\ runner.attempts \in 2..max_attempts

\* 7001 and one of the random ports were held by other sockets; the
\* allocator has returned the other random port after at least two failed
\* probes.
C24_Witness ==
    /\ runner.addr = NoAddr
    /\ runner.st = "ready"
    /\ runner.in_use = {first_port, rand_low}
    /\ runner.port = rand_high
    /\ runner.attempts >= 3

\* ------------------------------------------------------------- status, checked
\* One caller that starts the runner while no background thread runs, stops
\* it and asks for its status, on any runner whose construction returned;
\* clients request the shutdown path.
StatusNext ==
    \/ \E t \in Threads : Start(1, t) /\ \A u \in Threads : ~is_alive(u)
    \/ StopStep(1)
    \/ StatusStep(1)
    \/ \E t \in Threads : RunStep(t)
    \/ ExtRequest(shutdown_path)

StatusSpec == InitConstructed /\ [][StatusNext]_vars

\* C11 as stated: a status() that follows a stop() that returned False
\* because the thread was alive after the join reports thread_alive as true.
C11_Original ==
    (hist = "timed_out" /\ last.op = "status" /\ last.val = "snapshot")
        => last.snap.thread_alive

\* A stop() that finds the thread alive after the join returns False and
\* keeps the handle; a status() that follows reads the liveness of that
\* thread as it is at the time of the read.
C11_TimeoutStep ==
    \A c \in Callers :
        /\ (StopAlive(c) /\ thr # None /\ is_alive(thr))
              => /\ last' = Returned("stop", "false")
                 /\ pc'[c] = "idle"
                 /\ thr' = thr
                 /\ hist' = "timed_out"
        /\ (StatusBegin(c) /\ hist = "timed_out") => pc'[c] = "status_alive"
        /\ (StatusAlive(c) /\ hist = "timed_out")
              => /\ pc'[c] = "status_ping"
                 /\ loc'[c].alive = is_alive(thr)
        /\ (StatusPing(c) /\ hist = "timed_out")
              => /\ last'.val = "snapshot"
                 /\ last'.snap.thread_alive = loc[c].alive

\* C11, amended: when the thread is alive after the bounded join, stop()
\* returns False and keeps the thread handle, and a following status()
\* reports in thread_alive whether that thread was alive when status() read
\* it: true while the thread runs, false once it has ended.
C11_TimeoutObservable ==
    /\ [](hist = "timed_out" => thr # None)
    /\ [][C11_TimeoutStep]_vars

\* A status() after such a stop() that reported the thread alive, the
\* thread still running.
C11_Witness ==
    /\ hist = "timed_out"
    /\ last.op = "status"
    /\ last.val = "snapshot"
    /\ last.snap.thread_alive
    /\ thr # None
    /\ is_alive(thr)

\* The steps of one status() call: thread_alive is read as false without a
\* handle and as the liveness of the handle's thread with one, and the
\* dictionary returned holds that value, the outcome of the ping made in
\* the call, and the runner's address, base URL and link mode.
C17_StatusStep ==
    \A c \in Callers :
        /\ (StatusBegin(c) /\ thr = None)
              => /\ pc'[c] = "status_ping"
                 /\ loc'[c].alive = FALSE
        /\ (StatusBegin(c) /\ thr # None) => pc'[c] = "status_alive"
        /\ StatusAlive(c)
              => /\ pc'[c] = "status_ping"
                 /\ loc'[c].alive = (thr # None /\ is_alive(thr))
        /\ StatusPing(c)
              => /\ pc'[c] = "idle"
                 /\ last'.op = "status"
                 /\ last'.val = "snapshot"
                 /\ last'.snap.thread_alive = loc[c].alive
                 /\ last'.snap.http_reachable = (Serving # {})
                 /\ last'.resp.path = root_path
                 /\ last'.snap.addr = <<runner.ip, runner.port>>
                 /\ last'.snap.base_url = base_url
                 /\ last'.snap.use_relative_links = runner.use_relative_links
                 /\ UNCHANGED <<runner, base_url, thr, cfg, srv, regVars, heapVars>>

\* A snapshot that was returned: thread_alive is true only with a handle,
\* it is false only without a handle or with a thread that has ended, and
\* the address is the one given at construction, or the allocator's.
C17_SnapshotReturned ==
    (last.op = "status" /\ last.val = "snapshot")
        => /\ last.snap.thread_alive => thr # None
           /\ ~last.snap.thread_alive => (thr = None \/ ~is_alive(thr))
           /\ last.snap.http_reachable = (last.resp.body # "refused")
           /\ runner.addr # NoAddr => last.snap.addr = runner.addr
           /\ runner.addr = NoAddr => last.snap.addr = <<LocalIp, first_port>>

\* C17: in a sequential history status() returns a dictionary in which
\* thread_alive is true exactly when a thread handle exists and its thread
\* is alive when status() reads it, http_reachable is the outcome of the
\* ping made in the call, and addr, base_url and use_relative_links are the
\* values of the construction.
C17_StatusSnapshot ==
    /\ []C17_SnapshotReturned
    /\ [][C17_StatusStep]_vars

\* A snapshot of a runner with an explicit address and relative links whose
\* thread is alive and whose server does not accept yet.
C17_Witness ==
    /\ last.op = "status"
    /\ last.val = "snapshot"
    /\ last.snap.thread_alive
    /\ ~last.snap.http_reachable
    /\ last.snap.use_relative_links
    /\ runner.addr # NoAddr
    /\ last.snap.addr = runner.addr

\* ------------------------------------------------------------- concurrent callers
\* Two threads of the host: one starts the runner while no background
\* thread runs and stops it, the other pings and asks for the status.
StopInProgress == pc[1] \in {"stop_post", "stop_chk", "stop_join", "stop_wait",
                             "stop_alive", "stop_clear"}

ObserverNext ==
    \/ \E t \in Threads : Start(1, t) /\ \A u \in Threads : ~is_alive(u)
    \/ StopStep(1)
    \/ Ping(2)
    \/ StatusStep(2)
    \/ \E t \in Threads : RunStep(t)

ObserverSpec == Init /\ [][ObserverNext]_vars

\* C15: a status() called from another thread while a stop() is in
\* progress returns a snapshot, and a ping() returns a boolean.
C15_ObserversCompleteNormally ==
    /\ last.op = "status" => last.val = "snapshot"
    /\ last.op = "ping" => last.val \in {"true", "false"}

\* One ping: a boolean that is true exactly when a server answered the GET
\* of the root path, with the runner, the threads, the registry and the
\* callers' positions as they were.
C16_PingStep ==
    \A c \in Callers :
        Ping(c) => /\ last'.op = "ping"
                   /\ last'.val \in {"true", "false"}
                   /\ last'.val = "true" <=> Serving # {}
                   /\ last'.resp.path = root_path
                   /\ last'.val = "true" => last'.resp.status = 200
                   /\ UNCHANGED <<runner, base_url, lifeVars, regVars, heapVars,
                                  pc, loc>>

\* C16: ping() can be called and returns a boolean in every lifecycle
\* state, also while a stop() is in progress: true when the GET of the root
\* path is answered, false when nothing accepts the connection; it raises
\* nothing and changes no state.
C16_PingIsBoolean ==
    /\ [](pc[2] = "idle" => ENABLED Ping(2))
    /\ [][C16_PingStep]_vars

\* A ping that returned False while a stop() was in progress (the server
\* already stopped), after one that had returned True.
C16_Witness ==
    /\ last.op = "ping"
    /\ last.val = "false"
    /\ StopInProgress
    /\ hist = "other"
    /\ thr # None

\* ------------------------------------------------------------- dispatcher, checked
\* The control paths under the configured base prefix.
Based(p) == Slash \o <<"b">> \o p

DispatchPaths == ReqPaths \cup {Based(root_path), Based(shutdown_path)}

\* One caller that registers contexts and starts the runner while no
\* background thread runs; clients request every path, and the handling of
\* a request may raise.
DispatchNext ==
    \/ \E o \in Objs, a \in Addrs : Alloc(o, a)
    \/ RegisterStep(1)
    \/ \E t \in Threads : Start(1, t) /\ \A u \in Threads : ~is_alive(u)
    \/ \E t \in Threads : RunStep(t)
    \/ \E p \in DispatchPaths : ExtRequest(p)
    \/ \E p \in DispatchPaths, f \in {"early", "late"} : FaultyRequest(p, f)

DispatchSpec == Init /\ [][DispatchNext]_vars

\* One request whose handling raises: status 500, the fixed body, no
\* application's answer, the registry as it was.
C12_FaultStep ==
    \A p \in DispatchPaths, f \in {"early", "late"} :
        FaultyRequest(p, f)
            => /\ last'.op = "request"
               /\ last'.resp.path = p
               /\ last'.resp.status = 500
               /\ last'.resp.body = "error"
               /\ last'.resp.app = NoApp
               /\ UNCHANGED regVars

C13_ControlRoutesUnderBase ==
    (base_url # NoBase /\ last.op = "request" /\ last.resp.body \notin {"refused", "error"})
        => /\ last.resp.path = Slash \o base_url \o shutdown_path
                => /\ last.resp.status = 200
                   /\ last.resp.body = "Shutdown"
                   /\ Serving = {}
           /\ last.resp.path = Slash \o base_url \o root_path
                => /\ last.resp.status = 200
                   /\ last.resp.body = "page"

\* One request for a control path: answered by the control route.
C14_ControlStep ==
    \A p \in ControlPaths :
        /\ (ExtRequest(p) /\ Serving # {})
              => /\ last'.resp.path = p
                 /\ last'.resp.app = NoApp
                 /\ last'.resp.fwd = <<>>
                 /\ last'.resp.status = 200
                 /\ p = root_path => last'.resp.body = "page"
                 /\ p = shutdown_path => last'.resp.body = "Shutdown"
                 /\ p = favicon_path => last'.resp.body = "icon"
        /\ \A f \in {"early", "late"} :
              FaultyRequest(p, f) => last'.resp.app = NoApp

\* C14: a request whose path is exactly /, /shutdown or /favicon.ico is
\* answered by its control route and is delegated to no session
\* application, whatever the registry contains.
C14_ControlPathsFirst == [][C14_ControlStep]_vars

\* The favicon was served while the registry held two applications.
C14_Witness ==
    /\ last.op = "request"
    /\ last.resp.path = favicon_path
    /\ last.resp.body = "icon"
    /\ Cardinality(DOMAIN pool) >= 2

\* ------------------------------------------------------------- links, checked
\* The PATH_INFO of a request for a URL: what follows the authority of an
\* absolute URL, the URL itself when it is relative to the server's root.
UrlPath(url) ==
    IF StartsWith(url, HttpScheme)
    THEN LET rest == SubSeq(url, Len(HttpScheme) + 1, Len(url))
             cut == {k \in 1..Len(rest) : rest[k] = "/"}
         IN IF cut = {} THEN Slash
            ELSE SubSeq(rest, CHOOSE k \in cut : \A j \in cut : k <= j, Len(rest))
    ELSE url

\* One caller that registers contexts and asks for their links, on any
\* runner whose construction returned; contexts come and go.
LinkNext ==
    \/ \E o \in Objs, a \in Addrs : Alloc(o, a)
    \/ \E o \in Objs : Free(o)
    \/ RegisterStep(1)
    \/ \E o \in Objs : DisplayLink(1, o)

LinkSpec == InitConstructed /\ [][LinkNext]_vars

\* The context a link was just returned for.
Linked(o) == /\ last.op = "display_link"
             /\ objSt[o] = "alive"
             /\ obj_id(o) = last.id

\* C20 as stated: the path of the link of a registered context is resolved
\* to the application created for that context.
C20_Original ==
    \A o \in registered :
        Linked(o) => Lookup(UrlPath(last.url)).ctx = o

\* The path of the link of a context the factory built an application for
\* is resolved to that application.
C20_BuiltLinkResolves ==
    \A o \in Built :
        Linked(o) => /\ Lookup(UrlPath(last.url)).ctx = o
                     /\ Lookup(UrlPath(last.url)) = pool[obj_id(o)]

\* display_link makes no request and changes nothing.
C20_LinkStep ==
    \A c \in Callers, o \in Objs :
        DisplayLink(c, o)
            => /\ last'.resp = NoResp
               /\ UNCHANGED <<runner, base_url, lifeVars, regVars, heapVars, pc, loc>>

\* C20, amended: for every context the session factory built an
\* application for, with or without a base URL and with or without relative
\* links, the path of display_link(c) is resolved by the dispatcher to that
\* application; display_link makes no request and changes no state.
C20_LinkRoundTrip ==
    /\ []C20_BuiltLinkResolves
    /\ [][C20_LinkStep]_vars

\* An absolute link under a base URL, returned for a context that has its
\* own application while another context has one too.
C20_Witness ==
    /\ last.op = "display_link"
    /\ base_url # NoBase
    /\ ~runner.use_relative_links
    /\ \E o \in Built : Linked(o) /\ Lookup(UrlPath(last.url)).ctx = o
    /\ Cardinality(Built) >= 2

\* ------------------------------------------------------------- start, checked
\* start() is one step of the caller: it returns None with the new thread
\* stored in _thread, and that thread has neither created nor bound its
\* server yet.
C21_StartStep ==
    \A c \in Callers, t \in Threads :
        Start(c, t) =>
            /\ pc'[c] = "idle"
            /\ last' = Returned("start", "none")
            /\ thr' = t
            /\ srv'[t] = "created"
            /\ cfg' = cfg

\* What the background threads do afterwards, a failed bind included,
\* reaches no caller: no caller's position or locals change and nothing is
\* raised in a caller.
C21_RunStep ==
    \A t \in Threads :
        RunStep(t) =>
            /\ UNCHANGED <<pc, loc, thr>>
            /\ last' = Quiet

\* C21: start() never blocks the caller: it returns after spawning the
\* background thread without waiting for the server to bind or to accept,
\* and it has returned normally also when the thread later fails to bind.
C21_StartNeverBlocks == [][C21_StartStep /\ C21_RunStep]_vars

\* start() has just returned while another server of the runner holds the
\* address: the bind of the thread it spawned is going to fail.
C21_Witness ==
    /\ last = Returned("start", "none")
    /\ thr # None
    /\ srv[thr] = "created"
    /\ Serving # {}
    /\ pc[1] = "idle"

\* ------------------------------------------------------------- registry, checked
\* No step removes an entry of the pool or assigns another application to
\* its identifier.
C22_EntryStep ==
    \A i \in DOMAIN pool : i \in DOMAIN pool' /\ pool'[i] = pool[i]

\* C22: registry entries are permanent and immutable: whatever register
\* calls, starts and requests happen, an identifier in the registry stays
\* in it and maps to the application it was inserted with.
C22_EntriesPermanent == [][C22_EntryStep]_vars

\* An application as the factory leaves it: built for a context, by an
\* invocation of the factory, with the path prefix of its identifier.
C27_Complete(app, i) ==
    /\ app.ctx \in Objs
    /\ app.n >= 1
    /\ app.prefix = ctx_path(i)

\* C27: with callers inside register, every entry of the registry is an
\* application the factory has finished, and a request that is routed
\* then either finds no entry and is answered 400 or is delegated to the
\* finished application stored under its identifier.
C27_NoPartialEntry ==
    /\ \A i \in DOMAIN pool : C27_Complete(pool[i], i)
    /\ (/\ last.op = "request"
        /\ last.resp.body # "refused"
        /\ last.resp.path \notin ControlPaths)
          => \/ /\ last.resp.status = 400
                /\ last.resp.app = NoApp
                /\ Group1(last.resp.path, base_url) \notin DOMAIN pool
             \/ /\ last.resp.body = "app"
                /\ last.resp.app = pool[Group1(last.resp.path, base_url)]
                /\ C27_Complete(last.resp.app, Group1(last.resp.path, base_url))

\* A request for an identifier was answered 400 while a caller is inside
\* register for that identifier, past the membership test and before the
\* assignment, and another caller is inside register too.
C27_Witness ==
    /\ last.op = "request"
    /\ last.resp.status = 400
    /\ \E c \in Callers :
          /\ pc[c] = "reg_build"
          /\ loc[c].id = Group1(last.resp.path, base_url)
    /\ \A c \in Callers : pc[c] = "reg_build"

\* ------------------------------------------------------------- status page, checked
\* The status page: one caller that registers contexts while clients
\* request the root path, and the shutdown path, of a server that is
\* started once no background thread runs.
PageNext ==
    \/ \E o \in Objs, a \in Addrs : Alloc(o, a)
    \/ \E o \in Objs : Free(o)
    \/ RegisterStep(1)
    \/ \E t \in Threads : Start(1, t) /\ \A u \in Threads : ~is_alive(u)
    \/ \E t \in Threads : RunStep(t)
    \/ \E p \in {root_path, shutdown_path} : ExtRequest(p)
    \/ RootDuringStore(1)

PageSpec == Init /\ [][PageNext]_vars

\* The link of a registry entry on the status page: the path prefix of the
\* session, and the identifier as its text.
PageLink(i) ==
    [href |-> IF base_url = NoBase THEN Slash \o i \o Slash
              ELSE Slash \o base_url \o Slash \o i \o Slash,
     text |-> i]

\* C23: a request to the root path that a server answers gets 200 and the
\* status page, whose items are one link per registry entry, to the path
\* prefix of the session, and are the 'no active links' item exactly when
\* the registry is empty.
C23_RootPage ==
    (last.op = "request" /\ last.resp.path = root_path /\ last.resp.body # "refused")
        => /\ last.resp.status = 200
           /\ last.resp.body = "page"
           /\ last.resp.items \ {NoLinksItem} = {PageLink(i) : i \in DOMAIN pool}
           /\ NoLinksItem \in last.resp.items <=> DOMAIN pool = {}

\* Rendering the page changes nothing but the answer.
C23_RenderStep ==
    ExtRequest(root_path) =>
        UNCHANGED <<runner, base_url, objSt, addrOf, pool, calls, registered, pc, loc, thr, cfg, srv, hist>>

\* The same for the requests that no insertion into the registry runs into.
C23_UndisturbedPage ==
    /\ [](last.resp.body = "error" \/ C23_RootPage)
    /\ [][C23_RenderStep]_vars

\* ------------------------------------------------------------- routing, checked
\* The base URLs of the routing: none, one that no identifier begins with,
\* and one made of digits as the identifiers are.
RouteBaseUrls == BaseUrls \cup {<<"1">>}

\* The addresses of the contexts of the routing: the identifier of one
\* is the digit base URL, the identifier of the other begins with it.
RouteAddrs == {1, 12}
RouteIds == {Str(a) : a \in RouteAddrs}

InitRouting ==
    /\ runner = DefaultRunner
    /\ base_url \in RouteBaseUrls
    /\ calls = [i \in RouteIds |-> 0]
    /\ Blank

\* What follows the identifier in a path: nothing, or one more segment.
Rests == {<<>>, <<"x">>}

\* /{id}/... and /{base_url}/{id}/... for identifier i.
PlainPaths(i) == {SessionPath(i) \o r : r \in Rests}
PrefixedPaths(i, base) == {Slash \o base \o SessionPath(i) \o r : r \in Rests}

\* The paths the clients of the routing request: the control paths, both
\* forms for every identifier, known or not, and under every base URL, the
\* same without the slash after the identifier, and the bare base URLs.
RoutePaths ==
    ControlPaths
    \cup UNION {PlainPaths(i) \cup {Slash \o i} : i \in RouteIds \cup {UnknownId}}
    \cup UNION {PrefixedPaths(i, b) \cup {Slash \o b \o Slash \o i} :
                  i \in RouteIds \cup {UnknownId}, b \in RouteBaseUrls \ {NoBase}}
    \cup UNION {{Slash \o b, Slash \o b \o Slash} : b \in RouteBaseUrls \ {NoBase}}

\* One caller that registers contexts, a server that is started once no
\* background thread runs, and clients that request the paths above.
RouteNext ==
    \/ \E o \in Objs, a \in RouteAddrs : Alloc(o, a)
    \/ RegisterStep(1)
    \/ \E t \in Threads : Start(1, t) /\ \A u \in Threads : ~is_alive(u)
    \/ \E t \in Threads : RunStep(t)
    \/ \E p \in RoutePaths : ExtRequest(p)

RouteSpec == InitRouting /\ [][RouteNext]_vars

\* The inbound paths with a slash after the identifier, with or without
\* the configured base prefix.
C25_Inbound ==
    UNION {PlainPaths(i) \cup PrefixedPaths(i, base_url) : i \in RouteIds}

\* C25: with a base URL configured, a request that is delegated to a
\* session application carries a path that begins with the prefix the
\* factory was given for that application, /{base_url}/{id}/, whether or
\* not the inbound path had the base prefix.  Stated for the identifiers
\* that differ from the base URL, where the two forms of a path cannot be
\* taken for one another.
C25_ForwardedUnderPrefix ==
    (/\ base_url # NoBase
     /\ last.op = "request"
     /\ last.resp.body = "app"
     /\ last.resp.path \in C25_Inbound
     /\ Group1(last.resp.path, base_url) # base_url)
        => /\ last.resp.app.prefix = ctx_path(Group1(last.resp.path, base_url))
           /\ StartsWith(last.resp.fwd, last.resp.app.prefix)

\* Path p begins with pre, and pre ends at the end of a segment of p.
C26_Under(p, pre) ==
    /\ StartsWith(p, pre)
    /\ Len(p) = Len(pre) \/ p[Len(pre) + 1] = "/"

\* Path p has one of the two forms for identifier i: /{id}/... or, with a
\* base URL, /{base_url}/{id}/...
C26_Forms(p, i) ==
    \/ C26_Under(p, Slash \o i)
    \/ base_url # NoBase /\ C26_Under(p, Slash \o base_url \o Slash \o i)

\* C26 as stated: a path of either form resolves to the session registered
\* under its identifier, and every other path that is no control path
\* resolves to no session.
C26_Original ==
    (/\ last.op = "request"
     /\ last.resp.body # "refused"
     /\ last.resp.path \notin ControlPaths)
        => /\ \A i \in DOMAIN pool :
                C26_Forms(last.resp.path, i)
                    => last.resp.body = "app" /\ last.resp.app = pool[i]
           /\ (\A i \in DOMAIN pool : ~C26_Forms(last.resp.path, i))
                => last.resp.status = 400 /\ last.resp.app = NoApp

\* The same forms, where an identifier that equals the base URL is read as
\* the base prefix whenever a segment follows it.
C26_FormsApart(p, i) ==
    IF i = base_url
    THEN \/ p \in {SessionPath(i), Slash \o i}
         \/ C26_Under(p, Slash \o base_url \o Slash \o i)
    ELSE C26_Forms(p, i)

\* C26, amended: the base prefix is stripped when present and followed by
\* a segment, and the first remaining segment is the candidate: a path of
\* either form resolves to the session registered under its identifier,
\* except that /{id}/x for an identifier equal to the base URL resolves x;
\* every other path that is no control path resolves to no session.
C26_PathResolution ==
    (/\ last.op = "request"
     /\ last.resp.body # "refused"
     /\ last.resp.path \notin ControlPaths)
        => /\ \A i \in DOMAIN pool :
                C26_FormsApart(last.resp.path, i)
                    => last.resp.body = "app" /\ last.resp.app = pool[i]
           /\ (\A i \in DOMAIN pool : ~C26_FormsApart(last.resp.path, i))
                => last.resp.status = 400 /\ last.resp.app = NoApp

\* Under a base URL that is also a registered identifier, the path made of
\* that segment alone has just been resolved to the session, while the
\* session of the other identifier is registered too.
C26_Witness ==
    /\ base_url # NoBase
    /\ base_url \in DOMAIN pool
    /\ Cardinality(DOMAIN pool) = 2
    /\ last.op = "request"
    /\ last.resp.path = SessionPath(base_url)
    /\ last.resp.body = "app"
    /\ last.resp.app = pool[base_url]

\* ------------------------------------------------------------- stop, checked
\* Two callers that call stop() on one runner, in any interleaving of
\* their steps; the runner is started while neither is inside stop() and no
\* background thread runs.
TwoStopNext ==
    \/ \E t \in Threads :
          /\ \A c \in Callers : pc[c] = "idle"
          /\ \A u \in Threads : ~is_alive(u)
          /\ Start(1, t)
    \/ \E c \in Callers : StopBegin(c)
    \/ \E c \in Callers : StopSend(c)
    \/ \E c \in Callers : StopRecv(c)
    \/ \E c \in Callers : StopChk(c)
    \/ \E c \in Callers : StopJoin(c)
    \/ \E c \in Callers, timeout \in BOOLEAN : StopWait(c, timeout)
    \/ \E c \in Callers : StopAlive(c)
    \/ \E c \in Callers : StopClear(c)
    \/ \E t \in Threads : RunStep(t)

TwoStopSpec == Init /\ [][TwoStopNext]_vars

\* C28: two stop() calls that run concurrently on a started runner both
\* return a boolean and raise nothing, in every interleaving of their reads
\* and writes of the thread handle.
C28_ConcurrentStopsReturn ==
    last.op = "stop" => last.val \in {"true", "false"}

\* One step of stop(): a step that returns True leaves the runner without a
\* handle and the thread the handle referred to ended; every other step,
\* the ones that return False included, leaves the handle as it is.
C29_StopStep ==
    \A c \in Callers :
        StopStep(c) =>
            IF last'.op = "stop" /\ last'.val = "true"
            THEN /\ thr' = None
                 /\ thr # None => srv'[thr] = "off"
            ELSE thr' = thr

\* While the caller is inside stop() nothing else assigns the handle, so
\* the handle a returning stop() finds is the one the call began with.
C29_CallStep ==
    \A c \in Callers :
        pc[c] # "idle" => (thr' = thr \/ StopClear(c))

\* C29: whenever stop() returns True the runner holds no thread handle and
\* the thread the most recent start() spawned is not alive; whenever stop()
\* returns False the handle is as it was before the call.
C29_StopResult == [][C29_StopStep /\ C29_CallStep]_vars

\* stop() has returned True on a runner that had been started: no handle
\* is held and no background thread is alive.
C29_Witness ==
    /\ last = Returned("stop", "true")
    /\ cfg # None
    /\ thr = None
    /\ \A t \in Threads : ~is_alive(t)

\* The request of a stop() on a runner whose handle refers to a thread that
\* has ended: it fails, stop() returns False and the handle stays.
C30_ExitedStep ==
    \A c \in Callers :
        (StopPost(c) /\ thr # None /\ ~is_alive(thr))
            => /\ last'.op = "stop"
               /\ last'.val = "false"
               /\ pc'[c] = "idle"
               /\ thr' = thr

\* C30: when the background thread has ended on its own, after a client's
\* shutdown request or a failed bind, while the runner still holds its
\* handle, the request stop() sends to the runner's address fails, stop()
\* returns False and the handle stays; nothing but start() changes that, so
\* every later stop() returns False as well.
C30_StopAfterExit == [][C30_ExitedStep]_vars

\* ------------------------------------------------------------- identity reuse, checked
\* Context o is alive at the address of a context that was registered and
\* has been destroyed since: str(id(o)) is the identifier of that context.
C31_Reuses(o) ==
    /\ objSt[o] = "alive"
    /\ \E old \in registered :
          /\ old # o
          /\ objSt[old] = "dead"
          /\ addrOf[old] = addrOf[o]

\* register(o) for such a context finds the entry of the identifier:
\* the factory is not invoked and the registry stays as it is.
C31_RegisterStep ==
    \A c \in Callers, o \in Objs :
        (RegisterCheck(c, o) /\ C31_Reuses(o))
            => /\ last' = Registered("found", obj_id(o))
               /\ pc'[c] = "idle"
               /\ calls' = calls
               /\ pool' = pool

\* The entry under the identifier of such a context was built, by the one
\* invocation of the factory for that identifier, for a destroyed context
\* of the same identity, the old context whenever the factory was invoked
\* for it; a request for the identifier is delegated to that application.
C31_RoutedToOld ==
    \A o \in Objs :
        C31_Reuses(o) =>
            /\ obj_id(o) \in DOMAIN pool
            /\ calls[obj_id(o)] >= 1
            /\ pool[obj_id(o)].ctx # o
            /\ objSt[pool[obj_id(o)].ctx] = "dead"
            /\ addrOf[pool[obj_id(o)].ctx] = addrOf[o]
            /\ Lookup(SessionPath(obj_id(o))) = pool[obj_id(o)]
            /\ (last.op = "request" /\ last.resp.body # "refused"
                  /\ last.resp.path = SessionPath(obj_id(o)))
                 => /\ last.resp.body = "app"
                    /\ last.resp.app = pool[obj_id(o)]

\* C31: when a registered context is destroyed and a new context is
\* allocated with the same identity, register(new context) does not invoke
\* the session factory, and requests to the new context's identifier are
\* delegated to the application that was built for the old context.
C31_IdentityReuse ==
    /\ []C31_RoutedToOld
    /\ [][C31_RegisterStep]_vars

\* A request for the identifier of a registered new context has just been
\* delegated to the application built for the destroyed old context, the
\* factory having been invoked once for the identifier.
C31_Witness ==
    /\ last.op = "request"
    /\ last.resp.body = "app"
    /\ \E o \in registered :
          /\ C31_Reuses(o)
          /\ last.resp.path = SessionPath(obj_id(o))
          /\ last.resp.app.ctx # o
          /\ objSt[last.resp.app.ctx] = "dead"
          /\ calls[obj_id(o)] = 1

====
